---- MODULE Spec2Model ----
(***************************************************************************)
(* A model of the arbeitsagentur scraper: the browser session              *)
(* (Crawler.goto and its health probe / page recreation, cleanupMemory)    *)
(* and the crawl orchestrator (ArbeitsagenturCrawler.readPostings,         *)
(* readArbeitsagenturPosting, loadNextPage, addCompanyData).               *)
(*                                                                         *)
(* SpecGoto     one Crawler, goto calls                                    *)
(* SpecCleanup  one Crawler, cleanupMemory calls                           *)
(* SpecCrawl    readPostings over a listing of short pages                 *)
(* SpecEnrich   readPostings over one long page, one pool session          *)
(* SpecNav      addCompanyData's navigation to one detail page             *)
(* SpecLoad     loadNextPage with exponentialBackoff and waitUntil         *)
(* SpecRead     readArbeitsagenturPosting on a listing page                *)
(* SpecBackoff  exponentialBackoff on its own                              *)
(* SpecWait     waitUntil on its own                                       *)
(* SpecWaitLive SpecWait, every condition() call and timer completing      *)
(* SpecCrawlLive the crawl, every operation and saveCallback completing    *)
(***************************************************************************)
EXTENDS Integers, Sequences, FiniteSets, TLC

(***************************************************************************)
(* Bounds of the model.                                                    *)
(***************************************************************************)
\* largest maxRetries a caller passes to goto (the code passes 2 and 3)
MaxRetriesBound == 3
\* number of goto calls made on the one Crawler of SpecGoto
MaxCalls == 2
\* number of spontaneous page crashes between operations
MaxCrashes == 1
\* cleanupMemory calls made on the one Crawler of SpecCleanup
MaxCleanups == 3
\* rows of a listing page modelled row by row
MaxListing == 3
\* readArbeitsagenturPosting calls made on that page
MaxReads == 4
\* rows of the listing crawled by readPostings
MaxRows == 101
\* rows one "load more" reveals, at most
MaxPage == 3
\* pool sessions (parallelCompanyCrawlers), at most
MaxPool == 2
\* rows of the one page crawled in SpecEnrich: the size of its batch
MaxPartition == 12
\* postings of one batch whose enrichment fails, at most
MaxFailures == 2
\* largest maxRetries passed to exponentialBackoff (the code passes 2 and 5)
MaxBackoffRetries == 5
\* largest timeout of waitUntil, in periods of its interval
MaxTimeout == 3
\* periods of the interval a timer callback may be late by, at most
MaxDrift == 2
\* condition() calls of waitUntil's interval pending at once, at most
MaxInFlight == 2

VARIABLES
    browser,            \* Crawler.browser: the browser process of the session
    page,               \* Crawler.page: [id, state], state in PageStates
    gotoPc,             \* position of the running goto call
    attempt,            \* goto: the loop variable
    maxRetries,         \* goto: parameter
    useSpaNavigation,   \* goto: parameter
    thrown,             \* the error a goto call ended with, or NoError
    trace,              \* what the current goto call did, in order
    calls,              \* goto calls started so far
    pageAtCall,         \* page.id when the current goto call started
    crashes             \* spontaneous crashes so far

gotoVars == <<browser, page, gotoPc, attempt, maxRetries, useSpaNavigation,
              thrown, trace, calls, pageAtCall, crashes>>

VARIABLES
    pc,                 \* readPostings: position of the orchestrator
    count,              \* readPostings: rows read successfully
    lastCleanup,        \* readPostings: count at the last periodic cleanup
    postings,           \* readPostings: the open batch (row indices)
    finalizePromise,    \* readPostings: 0 (null) or the batch it belongs to
    result,             \* what readPostings returned, or why it rejected
    listing,            \* the listing site: [pageSize, total, revealed]
    poolSize,           \* companyCrawlers.length
    batches,            \* the closed batches, each with its hand-off's state
    posting,            \* the Posting objects alive, by row index
    sinkLog,            \* the batches saveCallback was invoked with, in order
    cleanupLog          \* the cleanupMemory calls of the crawl, in order

crawlVars == <<pc, count, lastCleanup, postings, finalizePromise, result,
               listing, poolSize, batches, posting, sinkLog, cleanupLog>>

VARIABLES
    loadPc,             \* loadNextPage: position, or what it returned
    loadAttempt,        \* exponentialBackoff: attempt
    loadLog,            \* how each call of fn ended, in order
    loadUnhandled       \* a rejection no handler was attached to occurred

loadVars == <<loadPc, loadAttempt, loadLog, loadUnhandled>>

VARIABLES
    rows,               \* the listing as served: the kind of each row
    dom,                \* the rows whose container is in the page now
    readLog             \* the readArbeitsagenturPosting calls made, in order

readVars == <<rows, dom, readLog>>

VARIABLES
    cleanPc,            \* cleanupMemory: position, or how the call ended
    cleanCalls,         \* cleanupMemory calls started so far
    cleanLog            \* what the cleanupMemory calls did to the page

cleanVars == <<cleanPc, cleanCalls, cleanLog>>

VARIABLES
    navPc,              \* addCompanyData: position in one posting's navigation
    navOuter,           \* exponentialBackoff: attempt of the outer backoff
    navLog              \* the goto calls made for the posting, in order

navVars == <<navPc, navOuter, navLog>>

VARIABLES
    ebPc,               \* exponentialBackoff: position, or how the call ended
    ebAttempt,          \* exponentialBackoff: attempt
    ebMaxRetries,       \* exponentialBackoff: parameter
    ebDelay,            \* exponentialBackoff: parameter
    ebError,            \* exponentialBackoff: error
    ebResult,           \* the value it returned or the error it threw
    ebLog,              \* how each call of fn ended, in order
    ebWaits             \* the timeouts it slept, in order

backoffVars == <<ebPc, ebAttempt, ebMaxRetries, ebDelay, ebError, ebResult,
                 ebLog, ebWaits>>

VARIABLES
    wuPc,               \* waitUntil: position, or how its promise settled
    wuResult,           \* the value it resolved with or the reason it rejected with
    wuTimeout,          \* waitUntil: parameter, in periods of the interval
    wuNow,              \* periods of the interval elapsed since maxTime was set
    wuInterval,         \* the interval is set and not cleared
    wuInFlight,         \* condition() calls of interval callbacks not returned yet
    wuLate,             \* condition() calls started after the promise settled
    wuUnhandled,        \* an interval callback rejected (nobody handles it)
    wuObserved          \* the first truthy result a condition() call returned

waitVars == <<wuPc, wuResult, wuTimeout, wuNow, wuInterval, wuInFlight, wuLate,
              wuUnhandled, wuObserved>>

auxVars == <<loadVars, readVars, cleanVars, navVars, backoffVars, waitVars>>

vars == <<gotoVars, crawlVars, auxVars>>

(***************************************************************************)
(* Crawler: pages and error messages                                       *)
(***************************************************************************)
\* ok: responsive; crashed: evaluate() throws, isClosed() is false;
\* closed: isClosed() is true
PageStates == {"ok", "crashed", "closed"}

ErrUnhealthy == "Page is unhealthy, needs recreation"
ErrCrashed == "Page crashed during navigation"
ErrClosed == "Target page, context or browser has been closed"
ErrTimeout == "Timeout 30000ms exceeded"
ErrStatus == "Failed to load url: 500"
NoError == "none"

\* errorMessage.includes(word), for the messages above
Includes(message, word) ==
    CASE message = ErrUnhealthy -> word = "unhealthy"
      [] message = ErrCrashed -> word = "crashed"
      [] message = ErrClosed -> word = "closed"
      [] OTHER -> FALSE

\* page.isClosed()
IsClosed(p) == p.state = "closed"

\* Crawler.isPageHealthy: not closed and a trivial evaluate() succeeds
IsPageHealthy(p) == ~IsClosed(p) /\ p.state = "ok"

\* goto's catch block: does this failure ask for a new page?
NeedsRecreationNever(message, p) == FALSE

NeedsRecreationAlways(message, p) == TRUE

NeedsRecreationUnlessCrashed(message, p) ==
    \/ Includes(message, "closed")
    \/ Includes(message, "unhealthy")
    \/ IsClosed(p)

NeedsRecreation(message, p) ==
    \/ Includes(message, "crashed")
    \/ Includes(message, "closed")
    \/ Includes(message, "unhealthy")
    \/ IsClosed(p)

\* goto's catch block: was this the last attempt of the budget?
BudgetExhaustedEarly(a, mr) == a + 1 >= mr

BudgetExhaustedLate(a, mr) == a > mr

BudgetExhausted(a, mr) == a = mr

\* goto's inner catch (line 188): is a failure of recreatePage rethrown?
RecreateFailureRethrowsAlways(a, mr) == TRUE

RecreateFailureRethrows(a, mr) == a = mr

\* the terminal error of goto: the attempt count and the last message
TerminalError(mr, message) == [attempts |-> mr + 1, message |-> message]

\* the failures a navigation of the given strategy can end with, and the
\* state they leave the page in
NavFailures(spa) ==
    {[message |-> ErrTimeout, state |-> "ok"],
     [message |-> ErrCrashed, state |-> "crashed"],
     [message |-> ErrClosed, state |-> "closed"]}
    \cup (IF spa THEN {} ELSE {[message |-> ErrStatus, state |-> "ok"]})

ProbeEvent(a, healthy) ==
    [ev |-> "probe", attempt |-> a, ok |-> healthy,
     message |-> IF healthy THEN NoError ELSE ErrUnhealthy]
NavEvent(a, message) ==
    [ev |-> "nav", attempt |-> a, ok |-> message = NoError, message |-> message]
RecreateEvent(a, ok) ==
    [ev |-> "recreate", attempt |-> a, ok |-> ok, message |-> NoError]

(***************************************************************************)
(* The parts a specification does not exercise are at rest                 *)
(***************************************************************************)
\* no exponentialBackoff call is modelled on its own
BackoffIdle ==
    /\ ebPc = "idle"
    /\ ebAttempt = 0
    /\ ebMaxRetries = 0
    /\ ebDelay = 0
    /\ ebError = "undefined"
    /\ ebResult = "none"
    /\ ebLog = <<>>
    /\ ebWaits = <<>>

\* no waitUntil call is modelled on its own
WaitIdle ==
    /\ wuPc = "idle"
    /\ wuResult = "none"
    /\ wuTimeout = 0
    /\ wuNow = 0
    /\ wuInterval = FALSE
    /\ wuInFlight = 0
    /\ wuLate = 0
    /\ wuUnhandled = FALSE
    /\ wuObserved = "none"

\* no posting's navigation is modelled call by call
NavIdle ==
    /\ navPc = "none"
    /\ navOuter = 0
    /\ navLog = <<>>

\* no cleanupMemory call is modelled step by step
CleanIdle ==
    /\ cleanPc = "idle"
    /\ cleanCalls = 0
    /\ cleanLog = <<>>

\* no listing page is modelled row by row
ReadIdle ==
    /\ rows = <<>>
    /\ dom = {}
    /\ readLog = <<>>

\* no loadNextPage call is running
LoadIdle ==
    /\ loadPc = "none"
    /\ loadAttempt = 0
    /\ loadLog = <<>>
    /\ loadUnhandled = FALSE

\* the orchestrator's state in the specification of one Crawler alone
CrawlIdle ==
    /\ pc = "none"
    /\ count = 0
    /\ lastCleanup = 0
    /\ postings = <<>>
    /\ finalizePromise = 0
    /\ result = "none"
    /\ listing = [pageSize |-> 1, total |-> 0, revealed |-> 0]
    /\ poolSize = 1
    /\ batches = <<>>
    /\ posting = <<>>
    /\ sinkLog = <<>>
    /\ cleanupLog = <<>>

(***************************************************************************)
(* Crawler.goto                                                            *)
(***************************************************************************)
GotoInit ==
    /\ browser = 1
    /\ page = [id |-> 1, state |-> "ok"]
    /\ gotoPc = "idle"
    /\ attempt = 0
    /\ maxRetries = 0
    /\ useSpaNavigation = FALSE
    /\ thrown = NoError
    /\ trace = <<>>
    /\ calls = 0
    /\ pageAtCall = 1
    /\ crashes = 0

\* a caller invokes goto(url, useSpaNavigation, maxRetries)
GotoEnter(spa, mr) ==
    /\ gotoPc \in {"idle", "returned", "thrown"}
    /\ calls' = calls + 1
    /\ useSpaNavigation' = spa
    /\ maxRetries' = mr
    /\ attempt' = 0
    /\ thrown' = NoError
    /\ trace' = <<>>
    /\ pageAtCall' = page.id
    /\ gotoPc' = "probe"
    /\ UNCHANGED <<browser, page, crashes>>

\* a caller of the one Crawler of SpecGoto invokes goto
GotoCall(spa, mr) ==
    /\ calls < MaxCalls
    /\ GotoEnter(spa, mr)
    /\ UNCHANGED <<crawlVars, auxVars>>

\* the catch block up to its first await, for a failure with this message
\* that left the page as p
OnFailure(message, p) ==
    IF BudgetExhausted(attempt, maxRetries)
    THEN /\ thrown' = TerminalError(maxRetries, message)
         /\ gotoPc' = "thrown"
    ELSE /\ thrown' = thrown
         /\ gotoPc' = IF NeedsRecreation(message, p) THEN "recreate" ELSE "backoff"

\* the health probe that opens every attempt; an unhealthy page throws
GotoProbe ==
    /\ gotoPc = "probe"
    /\ IF IsPageHealthy(page)
       THEN /\ trace' = Append(trace, ProbeEvent(attempt, TRUE))
            /\ gotoPc' = "navigate"
            /\ thrown' = thrown
       ELSE /\ trace' = Append(trace, ProbeEvent(attempt, FALSE))
            /\ OnFailure(ErrUnhealthy, page)
    /\ UNCHANGED <<crawlVars, auxVars, browser, page, attempt, maxRetries, useSpaNavigation,
                   calls, pageAtCall, crashes>>

\* the navigation raced against the crash event: it wins
GotoNavigateOk ==
    /\ gotoPc = "navigate"
    /\ trace' = Append(trace, NavEvent(attempt, NoError))
    /\ gotoPc' = "returned"
    /\ UNCHANGED <<crawlVars, auxVars, browser, page, attempt, maxRetries, useSpaNavigation,
                   thrown, calls, pageAtCall, crashes>>

\* the navigation fails (timeout, status, crash event, page closed)
GotoNavigateFail ==
    /\ gotoPc = "navigate"
    /\ \E f \in NavFailures(useSpaNavigation) :
          /\ page' = [page EXCEPT !.state = f.state]
          /\ trace' = Append(trace, NavEvent(attempt, f.message))
          /\ OnFailure(f.message, page')
    /\ UNCHANGED <<crawlVars, auxVars, browser, attempt, maxRetries, useSpaNavigation,
                   calls, pageAtCall, crashes>>

\* Crawler.recreatePage succeeds: the page reference is replaced
GotoRecreateOk ==
    /\ gotoPc = "recreate"
    /\ page' = [id |-> page.id + 1, state |-> "ok"]
    /\ trace' = Append(trace, RecreateEvent(attempt, TRUE))
    /\ gotoPc' = "backoff"
    /\ UNCHANGED <<crawlVars, auxVars, browser, attempt, maxRetries, useSpaNavigation,
                   thrown, calls, pageAtCall, crashes>>

\* Crawler.recreatePage throws (browser.newPage fails): the old page was
\* closed (or its close threw and was ignored), the reference is kept
GotoRecreateFail ==
    /\ gotoPc = "recreate"
    /\ \E s \in {"closed", page.state} : page' = [page EXCEPT !.state = s]
    /\ page'.state # "ok"
    /\ trace' = Append(trace, RecreateEvent(attempt, FALSE))
    /\ IF RecreateFailureRethrows(attempt, maxRetries)
       THEN /\ thrown' = [attempts |-> attempt + 1, message |-> "raw"]
            /\ gotoPc' = "thrown"
       ELSE /\ thrown' = thrown
            /\ gotoPc' = "backoff"
    /\ UNCHANGED <<crawlVars, auxVars, browser, attempt, maxRetries, useSpaNavigation,
                   calls, pageAtCall, crashes>>

\* the sleep of 1000 * 2^attempt ms, then the loop's attempt++
GotoBackoff ==
    /\ gotoPc = "backoff"
    /\ attempt' = attempt + 1
    /\ gotoPc' = IF attempt + 1 <= maxRetries THEN "probe" ELSE "returned"
    /\ UNCHANGED <<crawlVars, auxVars, browser, page, maxRetries, useSpaNavigation, thrown,
                   trace, calls, pageAtCall, crashes>>

\* the page crashes while no operation is awaited on it: between two calls
\* (the call that had just ended is then over) or during the backoff sleep
PageCrash ==
    /\ gotoPc \in {"idle", "returned", "thrown", "backoff"}
    /\ page.state = "ok"
    /\ crashes < MaxCrashes
    /\ crashes' = crashes + 1
    /\ page' = [page EXCEPT !.state = "crashed"]
    /\ gotoPc' = IF gotoPc = "backoff" THEN "backoff" ELSE "idle"
    /\ UNCHANGED <<crawlVars, auxVars, browser, attempt, maxRetries, useSpaNavigation,
                   thrown, trace, calls, pageAtCall>>

GotoCallStep == \E spa \in BOOLEAN, mr \in 0..MaxRetriesBound : GotoCall(spa, mr)

GotoNext ==
    \/ GotoCallStep
    \/ GotoProbe
    \/ GotoNavigateOk
    \/ GotoNavigateFail
    \/ GotoRecreateOk
    \/ GotoRecreateFail
    \/ GotoBackoff
    \/ PageCrash

InitGoto == GotoInit /\ CrawlIdle /\ LoadIdle /\ ReadIdle /\ CleanIdle /\ NavIdle
    /\ BackoffIdle /\ WaitIdle

SpecGoto == InitGoto /\ [][GotoNext]_vars

(***************************************************************************)
(* The crawl: listing, postings, batches                                   *)
(***************************************************************************)
\* readPostings: rows between two periodic cleanups of all sessions
CleanupEvery == 50
\* addCompanyData: requests of a partition between two cleanups
PartitionCleanupEvery == 10

Url == "searchUrl"

\* the indices of companyCrawlers
Sessions == 0..(poolSize - 1)

Min(a, b) == IF a < b THEN a ELSE b

Range(seq) == {seq[k] : k \in 1..Len(seq)}

\* groupBy: array.reduce that pushes every item on the list of its key;
\* keys[k] is getGroup(array[k], k - 1)
RECURSIVE GroupByReduce(_, _, _, _)
GroupByReduce(array, keys, index, res) ==
    IF index > Len(array) THEN res
    ELSE LET groupKey == keys[index]
             r1 == IF groupKey \in DOMAIN res THEN res
                   ELSE (groupKey :> <<>>) @@ res
         IN GroupByReduce(array, keys, index + 1,
                          [r1 EXCEPT ![groupKey] = Append(@, array[index])])

GroupBy(array, keys) == GroupByReduce(array, keys, 1, <<>>)

\* addCompanyData's getGroup: (_, i) => i % this.companyCrawlers.length
GetGroupOffByOne(array, n) == [k \in 1..Len(array) |-> k % n]

GetGroup(array, n) == [k \in 1..Len(array) |-> (k - 1) % n]

\* the enrichment fields of a Posting as readArbeitsagenturPosting leaves
\* them, and as addCompanyData assigns them from a detail page
NullFields ==
    [postal_code |-> "null", street |-> "null", email |-> "null",
     phone |-> "null", website |-> "null", company_size |-> "null"]
PageFields ==
    [postal_code |-> "page", street |-> "page", email |-> "page",
     phone |-> "page", website |-> "page", company_size |-> "page"]

\* the Posting readArbeitsagenturPosting returns for row i; status follows
\* its enrichment: read, started, enriched, navfailed, readfailed
NewPosting(i) ==
    [arbeitsagentur_id |-> i, from_search_url |-> "undefined",
     fields |-> NullFields, status |-> "read"]

NoWorker == [pos |-> 0, phase |-> "none", requestCount |-> 0]
\* a worker whose async function has returned (its locals are gone)
DoneWorker == [pos |-> 0, phase |-> "done", requestCount |-> 0]

\* addCompanyData up to its first await: one worker per group, each
\* starting the navigation for the first posting of its group
StartWorkers(groups) ==
    [s \in Sessions |->
        IF s \in DOMAIN groups
        THEN [pos |-> 1, phase |-> "nav", requestCount |-> 0]
        ELSE NoWorker]

FirstOfGroups(groups) == {groups[s][1] : s \in DOMAIN groups}

\* a finalizePromise that is null or settled
SettledAlways(b) == TRUE

SettledNever(b) == b = 0

SettledWhenEnriched(b) ==
    b = 0 \/ batches[b].phase \in {"saving", "resolved", "rejected"}

Settled(b) == b = 0 \/ batches[b].phase \in {"resolved", "rejected"}

\* the tasks that have an operation in flight on pool session s
InFlight(s) ==
    {<<"addCompanyData", b>> : b \in {c \in 1..Len(batches) :
        batches[c].workers[s].phase \in {"cleanup", "nav", "extract"}}}
    \cup (IF pc \in {"gotoPool", "cleanupPool"}
          THEN {<<"readPostings", 0>>} ELSE {})

CrawlInit ==
    /\ pc = "start"
    /\ count = 0
    /\ lastCleanup = 0
    /\ postings = <<>>
    /\ finalizePromise = 0
    /\ result = "none"
    /\ \E p \in 1..MaxPage, t \in {0, MaxRows} :
          listing = [pageSize |-> p, total |-> t, revealed |-> Min(p, t)]
    /\ poolSize \in 1..MaxPool
    /\ batches = <<>>
    /\ posting = <<>>
    /\ sinkLog = <<>>
    /\ cleanupLog = <<>>

(***************************************************************************)
(* ArbeitsagenturCrawler.readPostings                                      *)
(***************************************************************************)
\* line 47: the primary session reaches the listing
OrchGotoPrimaryOk ==
    /\ pc = "start"
    /\ pc' = "gotoPool"
    /\ UNCHANGED <<gotoVars, auxVars, cleanupLog, count, lastCleanup, postings, finalizePromise, result,
                   listing, poolSize, batches, posting, sinkLog>>

\* line 47: jobCrawler.goto throws its terminal error
OrchGotoPrimaryFail ==
    /\ pc = "start"
    /\ pc' = "rejected"
    /\ result' = "primary navigation"
    /\ UNCHANGED <<gotoVars, auxVars, cleanupLog, count, lastCleanup, postings, finalizePromise,
                   listing, poolSize, batches, posting, sinkLog>>

\* line 48: every pool session reaches the detail site
OrchGotoPoolOk ==
    /\ pc = "gotoPool"
    /\ pc' = "loop"
    /\ UNCHANGED <<gotoVars, auxVars, cleanupLog, count, lastCleanup, postings, finalizePromise, result,
                   listing, poolSize, batches, posting, sinkLog>>

\* line 48: the goto of a pool session throws, Promise.all rejects
OrchGotoPoolFail ==
    /\ pc = "gotoPool"
    /\ pc' = "rejected"
    /\ result' = "pool navigation"
    /\ UNCHANGED <<gotoVars, auxVars, cleanupLog, count, lastCleanup, postings, finalizePromise,
                   listing, poolSize, batches, posting, sinkLog>>

\* line 54: is the periodic cleanup due
CleanupDueAtMultiple == count > 0 /\ count % CleanupEvery = 0

CleanupDue == count - lastCleanup >= CleanupEvery

\* lines 56-57: cleanupMemory is called on the primary session, then on
\* all pool sessions, at the current count
OrchCleanupRecord(session) ==
    [by |-> "readPostings", session |-> session, batch |-> 0, at |-> count]

\* lines 54-56: the periodic cleanup starts on the primary session
OrchCleanupStart ==
    /\ pc = "loop"
    /\ CleanupDue
    /\ pc' = "cleanupPrimary"
    /\ cleanupLog' = Append(cleanupLog, OrchCleanupRecord("primary"))
    /\ UNCHANGED <<gotoVars, auxVars, count, lastCleanup, postings, finalizePromise, result,
                   listing, poolSize, batches, posting, sinkLog>>

\* line 57: cleanupMemory is started on every pool session
OrchCleanupPool ==
    /\ pc = "cleanupPrimary"
    /\ pc' = "cleanupPool"
    /\ cleanupLog' = Append(cleanupLog, OrchCleanupRecord("pool"))
    /\ UNCHANGED <<gotoVars, auxVars, count, lastCleanup, postings, finalizePromise, result,
                   listing, poolSize, batches, posting, sinkLog>>

\* lines 57-58: the pool cleanups are done
OrchCleanupDone ==
    /\ pc = "cleanupPool"
    /\ lastCleanup' = count
    /\ pc' = "read"
    /\ UNCHANGED <<gotoVars, auxVars, cleanupLog, count, postings, finalizePromise, result,
                   listing, poolSize, batches, posting, sinkLog>>

Reading == pc = "read" \/ (pc = "loop" /\ ~CleanupDue)

\* line 51: const i = count, the index the iteration reads
ReadIndexOfBatch == Len(postings)

ReadIndex == count

\* lines 61, 75-76: row i is there and is read; its container is deleted
OrchReadFound ==
    /\ Reading
    /\ ReadIndex < listing.revealed
    /\ postings' = Append(postings, ReadIndex)
    /\ posting' = (ReadIndex :> NewPosting(ReadIndex)) @@ posting
    /\ count' = count + 1
    /\ pc' = "loop"
    /\ UNCHANGED <<gotoVars, auxVars, cleanupLog, lastCleanup, finalizePromise, result, listing, poolSize,
                   batches, sinkLog>>

\* line 61: row i is there but a required element of it is not
\* (getLinkItem throws, or the location text is missing)
OrchReadThrow ==
    /\ Reading
    /\ count < listing.revealed
    /\ pc' = "rejected"
    /\ result' = "row read"
    /\ UNCHANGED <<gotoVars, auxVars, cleanupLog, count, lastCleanup, postings, finalizePromise,
                   listing, poolSize, batches, posting, sinkLog>>

\* line 64: postings.length > 0
HasPostingsAlways(ps) == TRUE

HasPostingsMoreThanOne(ps) == Len(ps) > 1

HasPostings(ps) == Len(ps) > 0

\* lines 64-69 (with pc' given by the caller): the open batch is closed:
\* tagged, handed to addCompanyData, and a new batch is opened
CloseBatch ==
    IF ~HasPostings(postings)
    THEN UNCHANGED <<gotoVars, postings, finalizePromise, batches, posting>>
    ELSE LET groups == GroupBy(postings, GetGroup(postings, poolSize))
         IN /\ posting' =
                  [i \in DOMAIN posting |->
                      IF i \in Range(postings)
                      THEN [posting[i] EXCEPT
                               !.from_search_url = Url,
                               !.status = IF i \in FirstOfGroups(groups)
                                          THEN "started" ELSE @]
                      ELSE posting[i]]
            /\ batches' = Append(batches,
                  [ids |-> postings, groups |-> groups,
                   workers |-> StartWorkers(groups), phase |-> "enriching",
                   handed |-> <<>>])
            /\ finalizePromise' = Len(batches) + 1
            /\ postings' = <<>>

\* does line 63 await anything
AwaitsPreviousNever == FALSE

AwaitsPrevious == finalizePromise # 0

\* lines 61-63: row i is not there; the previous hand-off is awaited
OrchReadAbsent ==
    /\ Reading
    /\ count >= listing.revealed
    /\ IF AwaitsPrevious
       THEN /\ pc' = "awaitPrev"
            /\ UNCHANGED <<gotoVars, auxVars, cleanupLog, postings, finalizePromise, batches, posting>>
       ELSE /\ pc' = "paginate"
            /\ CloseBatch
    /\ UNCHANGED <<gotoVars, auxVars, cleanupLog, count, lastCleanup, result, listing, poolSize, sinkLog>>

\* lines 63-69: the awaited hand-off settles
OrchAwaitPrev ==
    /\ pc = "awaitPrev"
    /\ Settled(finalizePromise)
    /\ IF batches[finalizePromise].phase = "rejected"
       THEN /\ pc' = "rejected"
            /\ result' = "hand-off"
            /\ UNCHANGED <<gotoVars, auxVars, cleanupLog, postings, finalizePromise, batches, posting>>
       ELSE /\ pc' = "paginate"
            /\ result' = result
            /\ CloseBatch
    /\ UNCHANGED <<gotoVars, auxVars, cleanupLog, count, lastCleanup, listing, poolSize, sinkLog>>

\* does line 78 await anything
AwaitsLastNever == FALSE

AwaitsLast == finalizePromise # 0

\* line 70: loadNextPage saw row i appear
OrchLoadNextPageTrue ==
    /\ pc = "paginate"
    /\ listing.revealed < listing.total
    /\ listing' = [listing EXCEPT
          !.revealed = Min(listing.revealed + listing.pageSize, listing.total)]
    /\ pc' = "loop"
    /\ UNCHANGED <<gotoVars, auxVars, cleanupLog, count, lastCleanup, postings, finalizePromise, result,
                   poolSize, batches, posting, sinkLog>>

\* lines 70-71, 78-79: loadNextPage gave up (the listing is exhausted, or
\* all retries failed); the loop ends
OrchLoadNextPageFalse ==
    /\ pc = "paginate"
    /\ IF AwaitsLast
       THEN /\ pc' = "finalAwait"
            /\ result' = result
       ELSE /\ pc' = "returned"
            /\ result' = count
    /\ UNCHANGED <<gotoVars, auxVars, cleanupLog, count, lastCleanup, postings, finalizePromise,
                   listing, poolSize, batches, posting, sinkLog>>

\* lines 78-79: the last hand-off settles and the count is returned
OrchFinalAwait ==
    /\ pc = "finalAwait"
    /\ Settled(finalizePromise)
    /\ IF batches[finalizePromise].phase = "rejected"
       THEN /\ pc' = "rejected"
            /\ result' = "hand-off"
       ELSE /\ pc' = "returned"
            /\ result' = count
    /\ UNCHANGED <<gotoVars, auxVars, cleanupLog, count, lastCleanup, postings, finalizePromise,
                   listing, poolSize, batches, posting, sinkLog>>

(***************************************************************************)
(* ArbeitsagenturCrawler.addCompanyData and the hand-off                   *)
(***************************************************************************)
Failed(b) == {i \in Range(batches[b].ids) \cap DOMAIN posting :
                 posting[i].status \in {"navfailed", "readfailed"}}

\* line 141: is a cleanup due before the next item
PartitionCleanupDue(requestCount) ==
    requestCount % PartitionCleanupEvery = 0 /\ requestCount > 0

\* lines 135, 158, 183: the for loop of a worker goes on to the next
\* posting of its group whatever the outcome was, until the group is done
NextWorkerAbortOnFailure(w, group, rc, outcome) ==
    IF w.pos < Len(group) /\ outcome = "enriched"
    THEN [pos |-> w.pos + 1,
          phase |-> IF PartitionCleanupDue(rc) THEN "cleanup" ELSE "nav",
          requestCount |-> rc]
    ELSE DoneWorker

NextWorker(w, group, rc, outcome) ==
    IF w.pos < Len(group)
    THEN [pos |-> w.pos + 1,
          phase |-> IF PartitionCleanupDue(rc) THEN "cleanup" ELSE "nav",
          requestCount |-> rc]
    ELSE DoneWorker

\* lines 133, 185: Promise.all resolves when the async function of every
\* group has returned
AnyWorkerDone(ws) == \E t \in Sessions : ws[t].phase = "done"

AllWorkersDone(ws) == \A t \in Sessions : ws[t].phase \in {"done", "none"}

\* the worker of session s of batch b is done with its current posting with
\* the given outcome; it goes on to the next posting of its group, and
\* the last worker to finish resolves addCompanyData, whose then() invokes
\* saveCallback (line 67)
FinishItem(b, s, outcome) ==
    LET bt == batches[b]
        w == bt.workers[s]
        group == bt.groups[s]
        cur == group[w.pos]
        rc == IF outcome = "navfailed" THEN w.requestCount
              ELSE w.requestCount + 1
        w1 == NextWorker(w, group, rc, outcome)
        hasNext == w1.phase # "done"
        ws == [bt.workers EXCEPT ![s] = w1]
        allDone == AllWorkersDone(ws)
    IN /\ posting' =
             [i \in DOMAIN posting |->
                 IF i = cur
                 THEN [posting[i] EXCEPT
                          !.status = outcome,
                          !.fields = IF outcome = "enriched" THEN PageFields ELSE @]
                 ELSE IF hasNext /\ i = group[w.pos + 1]
                      THEN [posting[i] EXCEPT !.status = "started"]
                      ELSE posting[i]]
       /\ batches' = [batches EXCEPT ![b] =
             [bt EXCEPT !.workers = ws,
                        !.phase = IF allDone THEN "saving" ELSE @,
                        \* the postings as saveCallback receives them
                        !.handed = IF bt.phase = "saving" THEN @
                                   ELSE IF allDone
                                   THEN [i \in Range(bt.ids) |-> posting'[i]]
                                   ELSE <<>>]]
       /\ sinkLog' = IF allDone
                     THEN Append(sinkLog, [batch |-> b, ids |-> bt.ids])
                     ELSE sinkLog

\* lines 141-143: the cleanup before an item is done
WorkerCleanup(b, s) ==
    /\ batches[b].workers[s].phase = "cleanup"
    /\ batches' = [batches EXCEPT ![b].workers[s].phase = "nav"]
    /\ cleanupLog' = Append(cleanupLog,
          [by |-> "addCompanyData", session |-> s, batch |-> b,
           at |-> batches[b].workers[s].pos])
    /\ UNCHANGED <<gotoVars, auxVars, pc, count, lastCleanup, postings, finalizePromise, result,
                   listing, poolSize, posting, sinkLog>>

\* lines 146-153: one of the goto calls reached the detail page
WorkerNavOk(b, s) ==
    /\ batches[b].workers[s].phase = "nav"
    /\ batches' = [batches EXCEPT ![b].workers[s].phase = "extract"]
    /\ UNCHANGED <<gotoVars, auxVars, cleanupLog, pc, count, lastCleanup, postings, finalizePromise, result,
                   listing, poolSize, posting, sinkLog>>

\* lines 155-159: the navigation failed after all retries; the posting
\* is skipped
WorkerNavFail(b, s) ==
    /\ batches[b].workers[s].phase = "nav"
    /\ Cardinality(Failed(b)) < MaxFailures
    /\ FinishItem(b, s, "navfailed")
    /\ UNCHANGED <<gotoVars, auxVars, cleanupLog, pc, count, lastCleanup, postings, finalizePromise, result,
                   listing, poolSize>>

\* lines 162-176, 182: the four reads succeed and the fields are assigned
WorkerExtractOk(b, s) ==
    /\ batches[b].workers[s].phase = "extract"
    /\ FinishItem(b, s, "enriched")
    /\ UNCHANGED <<gotoVars, auxVars, cleanupLog, pc, count, lastCleanup, postings, finalizePromise, result,
                   listing, poolSize>>

\* lines 162-167, 177-182: one of the four reads throws
WorkerExtractFail(b, s) ==
    /\ batches[b].workers[s].phase = "extract"
    /\ Cardinality(Failed(b)) < MaxFailures
    /\ FinishItem(b, s, "readfailed")
    /\ UNCHANGED <<gotoVars, auxVars, cleanupLog, pc, count, lastCleanup, postings, finalizePromise, result,
                   listing, poolSize>>

\* the promise saveCallback returned resolves; the batch is discarded
SinkResolve(b) ==
    /\ batches[b].phase = "saving"
    /\ batches' = [batches EXCEPT ![b].phase = "resolved", ![b].handed = <<>>]
    /\ posting' = [i \in DOMAIN posting \ Range(batches[b].ids) |-> posting[i]]
    /\ UNCHANGED <<gotoVars, auxVars, cleanupLog, pc, count, lastCleanup, postings, finalizePromise, result,
                   listing, poolSize, sinkLog>>

\* the promise saveCallback returned rejects
SinkReject(b) ==
    /\ batches[b].phase = "saving"
    /\ batches' = [batches EXCEPT ![b].phase = "rejected", ![b].handed = <<>>]
    /\ posting' = [i \in DOMAIN posting \ Range(batches[b].ids) |-> posting[i]]
    /\ UNCHANGED <<gotoVars, auxVars, cleanupLog, pc, count, lastCleanup, postings, finalizePromise, result,
                   listing, poolSize, sinkLog>>

WorkerNavOkStep == \E b \in 1..Len(batches), s \in Sessions : WorkerNavOk(b, s)
WorkerNavFailStep == \E b \in 1..Len(batches), s \in Sessions : WorkerNavFail(b, s)
WorkerExtractOkStep == \E b \in 1..Len(batches), s \in Sessions : WorkerExtractOk(b, s)
WorkerExtractFailStep == \E b \in 1..Len(batches), s \in Sessions : WorkerExtractFail(b, s)
WorkerCleanupStep == \E b \in 1..Len(batches), s \in Sessions : WorkerCleanup(b, s)
SinkResolveStep == \E b \in 1..Len(batches) : SinkResolve(b)
SinkRejectStep == \E b \in 1..Len(batches) : SinkReject(b)

\* the crawl of a listing whose pages are short: no group of a batch
\* reaches the PartitionCleanupEvery requests of WorkerCleanupStep
CrawlNext ==
    \/ OrchGotoPrimaryOk
    \/ OrchGotoPrimaryFail
    \/ OrchGotoPoolOk
    \/ OrchGotoPoolFail
    \/ OrchCleanupStart
    \/ OrchCleanupPool
    \/ OrchCleanupDone
    \/ OrchReadFound
    \/ OrchReadThrow
    \/ OrchReadAbsent
    \/ OrchAwaitPrev
    \/ OrchLoadNextPageTrue
    \/ OrchLoadNextPageFalse
    \/ OrchFinalAwait
    \/ WorkerNavOkStep
    \/ WorkerNavFailStep
    \/ WorkerExtractOkStep
    \/ WorkerExtractFailStep
    \/ SinkResolveStep
    \/ SinkRejectStep

\* the crawl of a listing of one long page with a pool of one session:
\* the batch is one partition, long enough for WorkerCleanupStep
EnrichInit ==
    /\ pc = "start"
    /\ count = 0
    /\ lastCleanup = 0
    /\ postings = <<>>
    /\ finalizePromise = 0
    /\ result = "none"
    /\ listing = [pageSize |-> MaxPartition, total |-> MaxPartition,
                  revealed |-> MaxPartition]
    /\ poolSize = 1
    /\ batches = <<>>
    /\ posting = <<>>
    /\ sinkLog = <<>>
    /\ cleanupLog = <<>>

EnrichNext ==
    \/ OrchGotoPrimaryOk
    \/ OrchGotoPrimaryFail
    \/ OrchGotoPoolOk
    \/ OrchGotoPoolFail
    \/ OrchReadFound
    \/ OrchReadThrow
    \/ OrchReadAbsent
    \/ OrchLoadNextPageFalse
    \/ OrchFinalAwait
    \/ WorkerCleanupStep
    \/ WorkerNavOkStep
    \/ WorkerNavFailStep
    \/ WorkerExtractOkStep
    \/ WorkerExtractFailStep
    \/ SinkResolveStep
    \/ SinkRejectStep

InitEnrich == EnrichInit /\ GotoInit /\ LoadIdle /\ ReadIdle /\ CleanIdle /\ NavIdle
    /\ BackoffIdle /\ WaitIdle

SpecEnrich == InitEnrich /\ [][EnrichNext]_vars

InitCrawl == CrawlInit /\ GotoInit /\ LoadIdle /\ ReadIdle /\ CleanIdle /\ NavIdle
    /\ BackoffIdle /\ WaitIdle

SpecCrawl == InitCrawl /\ [][CrawlNext]_vars

\* the steps of readPostings itself
OrchNext ==
    \/ OrchGotoPrimaryOk
    \/ OrchGotoPrimaryFail
    \/ OrchGotoPoolOk
    \/ OrchGotoPoolFail
    \/ OrchCleanupStart
    \/ OrchCleanupPool
    \/ OrchCleanupDone
    \/ OrchReadFound
    \/ OrchReadThrow
    \/ OrchReadAbsent
    \/ OrchAwaitPrev
    \/ OrchLoadNextPageTrue
    \/ OrchLoadNextPageFalse
    \/ OrchFinalAwait

\* the steps of the partition workers of addCompanyData
WorkerNext ==
    \/ WorkerNavOkStep
    \/ WorkerNavFailStep
    \/ WorkerExtractOkStep
    \/ WorkerExtractFailStep

\* the steps of saveCallback
SinkNext ==
    \/ SinkResolveStep
    \/ SinkRejectStep

\* every session operation and every saveCallback call completes
CrawlFairness ==
    /\ WF_vars(OrchNext)
    /\ WF_vars(WorkerNext)
    /\ WF_vars(SinkNext)

\* the crawls of InitCrawl with the shortest or the longest page and with
\* the smallest or the largest pool
InitCrawlLive ==
    /\ InitCrawl
    /\ listing.pageSize \in {1, MaxPage}
    /\ poolSize \in {1, MaxPool}

SpecCrawlLive == InitCrawlLive /\ [][CrawlNext]_vars /\ CrawlFairness

(***************************************************************************)
(* ArbeitsagenturCrawler.loadNextPage, exponentialBackoff, waitUntil       *)
(***************************************************************************)
\* loadNextPage: exponentialBackoff(fn, 5, 5000)
LoadRetries == 5

\* the ways one call of fn (click, then waitUntil) ends
FnSeen == "row seen"
FnButtonMissing == "button missing"
FnConditionThrew == "condition threw"
FnTimedOut == "waitUntil timed out"
FnFailures == {FnButtonMissing, FnConditionThrew, FnTimedOut}

IsLastAttemptNever(a, mr) == FALSE

\* exponentialBackoff line 14: the failure of the last attempt is thrown
IsLastAttempt(a, mr) == a = mr - 1

\* loadNextPage lines 120-128: the try returns true, the catch false
LoadNextPageResultUncaught(failed) == IF failed THEN "raised" ELSE "true"

LoadNextPageResult(failed) == IF failed THEN "false" ELSE "true"

\* line 119: readPostings calls loadNextPage(i); exponentialBackoff
\* starts with attempt 0 and calls fn
LoadNextPageCall ==
    /\ loadPc \in {"none", "true", "false", "raised"}
    /\ loadPc' = "click"
    /\ loadAttempt' = 0
    /\ loadLog' = <<>>
    /\ UNCHANGED <<gotoVars, crawlVars, backoffVars, waitVars, readVars, cleanVars, navVars, loadUnhandled>>

\* exponentialBackoff lines 12-15: fn rejected
OnFnFailure(kind) ==
    /\ loadLog' = Append(loadLog, kind)
    /\ loadPc' = IF IsLastAttempt(loadAttempt, LoadRetries)
                 THEN LoadNextPageResult(TRUE) ELSE "sleep"
    /\ UNCHANGED loadAttempt

\* fn resolved: exponentialBackoff returns, loadNextPage returns true
OnFnSuccess ==
    /\ loadLog' = Append(loadLog, FnSeen)
    /\ loadPc' = LoadNextPageResult(FALSE)
    /\ UNCHANGED loadAttempt

\* line 122: clickButton finds the button, focuses it and presses Enter
LoadClickOk ==
    /\ loadPc = "click"
    /\ loadPc' = "check"
    /\ UNCHANGED <<gotoVars, crawlVars, backoffVars, waitVars, readVars, cleanVars, navVars, loadAttempt, loadLog, loadUnhandled>>

\* line 122: clickButton throws (no button with that id)
LoadClickThrow ==
    /\ loadPc = "click"
    /\ OnFnFailure(FnButtonMissing)
    /\ UNCHANGED <<gotoVars, crawlVars, backoffVars, waitVars, readVars, cleanVars, navVars, loadUnhandled>>

\* waitUntil lines 3-4: the first call of condition() is truthy
WaitUntilFirstTruthy ==
    /\ loadPc = "check"
    /\ OnFnSuccess
    /\ UNCHANGED <<gotoVars, crawlVars, backoffVars, waitVars, readVars, cleanVars, navVars, loadUnhandled>>

\* waitUntil lines 3-8: the first call of condition() is falsy (no
\* element, or an empty text); the interval is started
WaitUntilFirstFalsy ==
    /\ loadPc = "check"
    /\ loadPc' = "poll"
    /\ UNCHANGED <<gotoVars, crawlVars, backoffVars, waitVars, readVars, cleanVars, navVars, loadAttempt, loadLog, loadUnhandled>>

\* waitUntil line 3: the first call of condition() throws
WaitUntilFirstThrow ==
    /\ loadPc = "check"
    /\ OnFnFailure(FnConditionThrew)
    /\ UNCHANGED <<gotoVars, crawlVars, backoffVars, waitVars, readVars, cleanVars, navVars, loadUnhandled>>

\* waitUntil lines 14-17: a tick before maxTime sees the row
WaitUntilPollTruthy ==
    /\ loadPc = "poll"
    /\ OnFnSuccess
    /\ UNCHANGED <<gotoVars, crawlVars, backoffVars, waitVars, readVars, cleanVars, navVars, loadUnhandled>>

\* waitUntil lines 14-15: a tick before maxTime does not see the row
WaitUntilPollFalsy ==
    /\ loadPc = "poll"
    /\ UNCHANGED <<gotoVars, crawlVars, backoffVars, waitVars, readVars, cleanVars, navVars, loadVars>>

\* waitUntil line 14: condition() throws inside the interval callback;
\* the callback's promise rejects unhandled, the interval keeps running
WaitUntilPollThrow ==
    /\ loadPc = "poll"
    /\ loadUnhandled' = TRUE
    /\ UNCHANGED <<gotoVars, crawlVars, backoffVars, waitVars, readVars, cleanVars, navVars, loadPc, loadAttempt, loadLog>>

\* waitUntil lines 10-14: a tick after maxTime rejects, and then calls
\* condition() once more (which may throw, unhandled)
WaitUntilTimeout ==
    /\ loadPc = "poll"
    /\ OnFnFailure(FnTimedOut)
    /\ loadUnhandled' \in {loadUnhandled, TRUE}
    /\ UNCHANGED <<gotoVars, crawlVars, backoffVars, waitVars, readVars, cleanVars, navVars>>

\* exponentialBackoff lines 15-16, 9, 19: the sleep, attempt++, and the
\* loop test
BackoffSleep ==
    /\ loadPc = "sleep"
    /\ loadAttempt' = loadAttempt + 1
    /\ loadPc' = IF loadAttempt + 1 < LoadRetries
                 THEN "click" ELSE LoadNextPageResult(TRUE)
    /\ UNCHANGED <<gotoVars, crawlVars, backoffVars, waitVars, readVars, cleanVars, navVars, loadLog, loadUnhandled>>

LoadNext ==
    \/ LoadNextPageCall
    \/ LoadClickOk
    \/ LoadClickThrow
    \/ WaitUntilFirstTruthy
    \/ WaitUntilFirstFalsy
    \/ WaitUntilFirstThrow
    \/ WaitUntilPollTruthy
    \/ WaitUntilPollFalsy
    \/ WaitUntilPollThrow
    \/ WaitUntilTimeout
    \/ BackoffSleep

InitLoad == GotoInit /\ CrawlIdle /\ LoadIdle /\ ReadIdle /\ CleanIdle /\ NavIdle
    /\ BackoffIdle /\ WaitIdle

SpecLoad == InitLoad /\ [][LoadNext]_vars

(***************************************************************************)
(* ArbeitsagenturCrawler.readArbeitsagenturPosting                         *)
(***************************************************************************)
\* the elements a row of the given kind has: the company name, the
\* location, and the anchor that carries the posting's id
RowKinds == {"complete", "no anchor", "no location"}
Elements(kind) ==
    CASE kind = "complete" -> {"firma", "arbeitsort", "ergebnisliste-item"}
      [] kind = "no anchor" -> {"firma", "arbeitsort"}
      [] kind = "no location" -> {"firma", "ergebnisliste-item"}

\* page.$ finds the element of row i (rows are numbered from 0)
HasElement(listed, present, i, element) ==
    /\ i \in present
    /\ element \in Elements(listed[i + 1])

\* lines 89-90: the company name of row i is there
RowExistsAlways(listed, present, i) == TRUE

RowExists(listed, present, i) == HasElement(listed, present, i, "firma")

\* readArbeitsagenturPosting(i) on the page: what it returns or raises,
\* and the rows left in the page
ReadArbeitsagenturPosting(listed, present, i) ==
    IF ~RowExists(listed, present, i)
    THEN [outcome |-> "absent", id |-> -1, dom |-> present]
    ELSE IF ~HasElement(listed, present, i, "ergebnisliste-item")
    THEN \* getLinkItem throws, Promise.all rejects
         [outcome |-> "raised", id |-> -1, dom |-> present]
    ELSE IF ~HasElement(listed, present, i, "arbeitsort")
    THEN \* line 105 throws after line 101 has deleted the row
         [outcome |-> "raised", id |-> -1, dom |-> present \ {i}]
    ELSE [outcome |-> "posting", id |-> NewPosting(i).arbeitsagentur_id,
          dom |-> present \ {i}]

ReadInit ==
    /\ \E n \in 0..MaxListing : rows \in [1..n -> RowKinds]
    /\ dom = {i \in 0..(Len(rows) - 1) : TRUE}
    /\ readLog = <<>>

\* a caller reads row i
ReadRow(i) ==
    /\ Len(readLog) < MaxReads
    /\ LET r == ReadArbeitsagenturPosting(rows, dom, i)
       IN /\ dom' = r.dom
          /\ readLog' = Append(readLog,
                [index |-> i, outcome |-> r.outcome, id |-> r.id,
                 removed |-> dom \ r.dom])
    /\ UNCHANGED <<gotoVars, crawlVars, backoffVars, waitVars, loadVars, cleanVars, navVars, rows>>

ReadRowStep == \E i \in 0..MaxListing : ReadRow(i)

ReadNext == ReadRowStep

InitRead == GotoInit /\ CrawlIdle /\ LoadIdle /\ ReadInit /\ CleanIdle /\ NavIdle
    /\ BackoffIdle /\ WaitIdle

SpecRead == InitRead /\ [][ReadNext]_vars

(***************************************************************************)
(* addCompanyData: the navigation to one posting's detail page             *)
(***************************************************************************)
\* line 148: goto(url, true, 2); line 151: goto(url, false, 3)
SpaRetries == 2
FullRetries == 3
\* line 153: exponentialBackoff(fn, 2, 3000)
NavOuterRetries == 2

RetriesOfSwapped(spa) == IF spa THEN FullRetries ELSE SpaRetries

RetriesOf(spa) == IF spa THEN SpaRetries ELSE FullRetries

\* the goto call that has just ended, as the worker saw it
CallRecord(ok) ==
    [outer |-> navOuter, spa |-> useSpaNavigation, maxRetries |-> maxRetries,
     attempts |-> Cardinality({i \in 1..Len(trace) : trace[i].ev = "probe"}),
     ok |-> ok]

\* lines 137-148: the worker takes a posting; the outer backoff calls fn,
\* which calls goto with the in-app-route strategy
NavStart ==
    /\ navPc = "none"
    /\ navPc' = "goto"
    /\ GotoEnter(TRUE, RetriesOf(TRUE))
    /\ UNCHANGED <<crawlVars, backoffVars, waitVars, loadVars, readVars, cleanVars, navOuter, navLog>>

\* a goto call returned: fn resolves, the outer backoff returns
NavGotoReturned ==
    /\ navPc = "goto"
    /\ gotoPc = "returned"
    /\ navLog' = Append(navLog, CallRecord(TRUE))
    /\ navPc' = "extract"
    /\ UNCHANGED <<gotoVars, crawlVars, backoffVars, waitVars, loadVars, readVars, cleanVars, navOuter>>

\* lines 149-151: the in-app-route goto threw; fn falls back to goto
\* with the full-load strategy
NavSpaThrown ==
    /\ navPc = "goto"
    /\ gotoPc = "thrown"
    /\ useSpaNavigation
    /\ navLog' = Append(navLog, CallRecord(FALSE))
    /\ GotoEnter(FALSE, RetriesOf(FALSE))
    /\ UNCHANGED <<crawlVars, backoffVars, waitVars, loadVars, readVars, cleanVars, navPc, navOuter>>

\* line 151 and exponentialBackoff lines 12-15: the full-load goto
\* threw, fn rejects; the last outer attempt rethrows, which the catch
\* at lines 155-159 turns into skipping the posting
NavFullThrown ==
    /\ navPc = "goto"
    /\ gotoPc = "thrown"
    /\ ~useSpaNavigation
    /\ navLog' = Append(navLog, CallRecord(FALSE))
    /\ navPc' = IF IsLastAttempt(navOuter, NavOuterRetries)
                THEN "skipped" ELSE "sleep"
    /\ UNCHANGED <<gotoVars, crawlVars, backoffVars, waitVars, loadVars, readVars, cleanVars, navOuter>>

\* exponentialBackoff lines 15-16, 9-11: the sleep, attempt++, and fn
\* is called again
NavOuterSleep ==
    /\ navPc = "sleep"
    /\ navOuter' = navOuter + 1
    /\ IF navOuter + 1 < NavOuterRetries
       THEN /\ navPc' = "goto"
            /\ GotoEnter(TRUE, RetriesOf(TRUE))
       ELSE /\ navPc' = "skipped"
            /\ UNCHANGED gotoVars
    /\ UNCHANGED <<crawlVars, backoffVars, waitVars, loadVars, readVars, cleanVars, navLog>>

\* lines 161-182: the detail fields are read
NavExtract ==
    /\ navPc = "extract"
    /\ navPc' = "done"
    /\ UNCHANGED <<gotoVars, crawlVars, backoffVars, waitVars, loadVars, readVars, cleanVars, navOuter,
                   navLog>>

\* the page crashes while goto sleeps between two attempts
NavPageCrash ==
    /\ gotoPc = "backoff"
    /\ PageCrash

NavNext ==
    \/ NavStart
    \/ NavGotoReturned
    \/ NavSpaThrown
    \/ NavFullThrown
    \/ NavOuterSleep
    \/ NavExtract
    \/ NavPageCrash
    \/ GotoProbe
    \/ GotoNavigateOk
    \/ GotoNavigateFail
    \/ GotoRecreateOk
    \/ GotoRecreateFail
    \/ GotoBackoff

InitNav == GotoInit /\ CrawlIdle /\ LoadIdle /\ ReadIdle /\ CleanIdle /\ NavIdle
    /\ BackoffIdle /\ WaitIdle

SpecNav == InitNav /\ [][NavNext]_vars

(***************************************************************************)
(* Properties of the navigation to a detail page                           *)
(***************************************************************************)
RECURSIVE SumAttempts(_)
SumAttempts(k) == IF k = 0 THEN 0 ELSE navLog[k].attempts + SumAttempts(k - 1)
\* the attempts of all goto calls for the posting, the running one included
NavigationAttempts ==
    SumAttempts(Len(navLog))
    + (IF navPc = "goto" /\ gotoPc \notin {"returned", "thrown"}
       THEN Cardinality({i \in 1..Len(trace) : trace[i].ev = "probe"}) ELSE 0)

\* C17: the goto calls for a posting alternate in-app-route (maxRetries
\* 2) and full-load (maxRetries 3), starting with in-app-route; a
\* full-load call follows only a failed in-app-route call of the same
\* outer attempt; there are at most 2 outer attempts, so at most 14
\* navigation attempts; the fields are read only after a goto returned.
C17_StrategyOrder ==
    /\ Len(navLog) <= 2 * NavOuterRetries
    /\ \A k \in 1..Len(navLog) :
          /\ navLog[k].outer = (k - 1) \div 2
          /\ navLog[k].spa = (k % 2 = 1)
          /\ navLog[k].maxRetries = (IF k % 2 = 1 THEN 2 ELSE 3)
          /\ navLog[k].attempts <= navLog[k].maxRetries + 1
          /\ ~navLog[k].spa =>
                /\ navLog[k - 1].spa
                /\ ~navLog[k - 1].ok
                /\ navLog[k - 1].outer = navLog[k].outer
                /\ navLog[k - 1].attempts = 3
          /\ navLog[k].ok => k = Len(navLog)
    /\ NavigationAttempts <= 14
    /\ navPc \in {"extract", "done"} => navLog[Len(navLog)].ok
    /\ navPc = "skipped" =>
          /\ Len(navLog) = 4
          /\ NavigationAttempts = 14
          /\ \A k \in 1..4 : ~navLog[k].ok
    /\ (navPc = "goto" /\ gotoPc \notin {"returned", "thrown"}) =>
          /\ useSpaNavigation = (Len(navLog) % 2 = 0)
          /\ maxRetries = (IF useSpaNavigation THEN 2 ELSE 3)

C17_Witness ==
    /\ navPc = "extract"
    /\ Len(navLog) = 4
    /\ navLog[4].ok
    /\ navLog[4].attempts = 4
    /\ NavigationAttempts = 14

(***************************************************************************)
(* Crawler.cleanupMemory                                                   *)
(***************************************************************************)
\* lines 222-224: the catch block logs the error, the call returns
CleanupOnErrorRethrown == "raised"

CleanupOnError == "returned"

CleanupEvent(ev, ok) == [call |-> cleanCalls, ev |-> ev, ok |-> ok]

\* a caller invokes cleanupMemory()
CleanupCall ==
    /\ cleanPc \in {"idle", "returned", "raised"}
    /\ cleanCalls < MaxCleanups
    /\ cleanCalls' = cleanCalls + 1
    /\ cleanPc' = "probe"
    /\ UNCHANGED <<gotoVars, crawlVars, backoffVars, waitVars, loadVars, readVars, navVars, cleanLog>>

\* line 202: isPageHealthy, which never throws; an unhealthy page skips
\* the block
CleanupProbe ==
    /\ cleanPc = "probe"
    /\ cleanLog' = Append(cleanLog, CleanupEvent("probe", IsPageHealthy(page)))
    /\ cleanPc' = IF IsPageHealthy(page) THEN "evaluate" ELSE "returned"
    /\ UNCHANGED <<gotoVars, crawlVars, backoffVars, waitVars, loadVars, readVars, navVars, cleanCalls>>

\* lines 204-216: the timers are cleared and gc is run in the page
CleanupEvaluateOk ==
    /\ cleanPc = "evaluate"
    /\ IsPageHealthy(page)
    /\ cleanLog' = Append(cleanLog, CleanupEvent("evaluate", TRUE))
    /\ cleanPc' = "cookies"
    /\ UNCHANGED <<gotoVars, crawlVars, backoffVars, waitVars, loadVars, readVars, navVars, cleanCalls>>

\* lines 204-216: page.evaluate throws (the page crashed or was closed
\* meanwhile, or the script failed)
CleanupEvaluateThrow ==
    /\ cleanPc = "evaluate"
    /\ \E st \in PageStates :
          /\ IsPageHealthy(page) \/ st = page.state
          /\ page' = [page EXCEPT !.state = st]
    /\ cleanLog' = Append(cleanLog, CleanupEvent("evaluate", FALSE))
    /\ cleanPc' = CleanupOnError
    /\ UNCHANGED <<crawlVars, backoffVars, waitVars, loadVars, readVars, navVars, cleanCalls, browser, gotoPc,
                   attempt, maxRetries, useSpaNavigation, thrown, trace, calls,
                   pageAtCall, crashes>>

\* lines 219-220: the cookies of the page's context are cleared
CleanupClearCookiesOk ==
    /\ cleanPc = "cookies"
    /\ cleanLog' = Append(cleanLog, CleanupEvent("clearCookies", TRUE))
    /\ cleanPc' = "returned"
    /\ UNCHANGED <<gotoVars, crawlVars, backoffVars, waitVars, loadVars, readVars, navVars, cleanCalls>>

\* lines 219-220: context.clearCookies throws
CleanupClearCookiesThrow ==
    /\ cleanPc = "cookies"
    /\ cleanLog' = Append(cleanLog, CleanupEvent("clearCookies", FALSE))
    /\ cleanPc' = CleanupOnError
    /\ UNCHANGED <<gotoVars, crawlVars, backoffVars, waitVars, loadVars, readVars, navVars, cleanCalls>>

\* the page crashes while cleanupMemory awaits nothing on it
CleanupPageCrash ==
    /\ cleanPc \in {"idle", "returned", "probe", "evaluate"}
    /\ PageCrash

CleanupNext ==
    \/ CleanupCall
    \/ CleanupProbe
    \/ CleanupEvaluateOk
    \/ CleanupEvaluateThrow
    \/ CleanupClearCookiesOk
    \/ CleanupClearCookiesThrow
    \/ CleanupPageCrash

InitCleanup == GotoInit /\ CrawlIdle /\ LoadIdle /\ ReadIdle /\ CleanIdle /\ NavIdle
    /\ BackoffIdle /\ WaitIdle

SpecCleanup == InitCleanup /\ [][CleanupNext]_vars

(***************************************************************************)
(* exponentialBackoff(fn, maxRetries, delay) on its own, for any fn.  Each *)
(* call of fn either resolves with a value or rejects with an error; the   *)
(* value and the error carry the number of the call that produced them.    *)
(***************************************************************************)
DefaultDelay == 500
NavOuterDelay == 3000
LoadDelay == 5000

Delays == {DefaultDelay, NavOuterDelay, LoadDelay}
FnErrors == {"TimeoutError", "Error"}

\* Math.pow(2, n)
RECURSIVE Pow2(_)
Pow2(n) == IF n = 0 THEN 1 ELSE 2 * Pow2(n - 1)

Timeout(delay, a) == delay * Pow2(a)

Outcome(kind) == [kind |-> kind, call |-> Len(ebLog) + 1]

\* while (attempt < maxRetries): the body is entered, or the loop is left
\* and the trailing throw raises what error holds
LoopTest(a, mr, error) ==
    IF a < mr
    THEN /\ ebPc' = "call"
         /\ ebResult' = ebResult
    ELSE /\ ebPc' = "thrown"
         /\ ebResult' = error

ExponentialBackoffCall(mr, delay) ==
    /\ ebPc = "idle"
    /\ ebMaxRetries' = mr
    /\ ebDelay' = delay
    /\ ebAttempt' = 0
    /\ LoopTest(0, mr, ebError)
    /\ UNCHANGED <<gotoVars, crawlVars, loadVars, readVars, cleanVars,
                   navVars, waitVars, ebError, ebLog, ebWaits>>

FnResolves ==
    /\ ebPc = "call"
    /\ ebLog' = Append(ebLog, [ok |-> TRUE, outcome |-> Outcome("value")])
    /\ ebResult' = Outcome("value")
    /\ ebPc' = "returned"
    /\ UNCHANGED <<gotoVars, crawlVars, loadVars, readVars, cleanVars,
                   navVars, waitVars, ebAttempt, ebMaxRetries, ebDelay,
                   ebError, ebWaits>>

FnRejects(kind) ==
    /\ ebPc = "call"
    /\ ebLog' = Append(ebLog, [ok |-> FALSE, outcome |-> Outcome(kind)])
    /\ ebError' = Outcome(kind)
    /\ IF IsLastAttempt(ebAttempt, ebMaxRetries)
       THEN /\ ebPc' = "thrown"
            /\ ebResult' = ebError'
            /\ UNCHANGED ebWaits
       ELSE /\ ebPc' = "sleep"
            /\ ebWaits' = Append(ebWaits, Timeout(ebDelay, ebAttempt))
            /\ UNCHANGED ebResult
    /\ UNCHANGED <<gotoVars, crawlVars, loadVars, readVars, cleanVars,
                   navVars, waitVars, ebAttempt, ebMaxRetries, ebDelay>>

FnRejectsStep == \E kind \in FnErrors : FnRejects(kind)

SleepElapsed ==
    /\ ebPc = "sleep"
    /\ ebAttempt' = ebAttempt + 1
    /\ LoopTest(ebAttempt', ebMaxRetries, ebError)
    /\ UNCHANGED <<gotoVars, crawlVars, loadVars, readVars, cleanVars,
                   navVars, waitVars, ebMaxRetries, ebDelay, ebError, ebLog,
                   ebWaits>>

ExponentialBackoffStep ==
    \E mr \in 0..MaxBackoffRetries, delay \in Delays :
        ExponentialBackoffCall(mr, delay)

BackoffNext ==
    \/ ExponentialBackoffStep
    \/ FnResolves
    \/ FnRejectsStep
    \/ SleepElapsed

InitBackoff == GotoInit /\ CrawlIdle /\ LoadIdle /\ ReadIdle /\ CleanIdle /\ NavIdle
    /\ BackoffIdle /\ WaitIdle

SpecBackoff == InitBackoff /\ [][BackoffNext]_vars

(***************************************************************************)
(* waitUntil(condition, timeout) on its own, for any condition.  Time is   *)
(* counted in periods of the interval; a timer may fire late, and several  *)
(* callbacks of the interval may be awaiting condition() at once.  Clock   *)
(* readings beyond maxTime are all alike to the code, so the clock stops   *)
(* at wuTimeout + MaxDrift.                                                *)
(***************************************************************************)
ConditionValues == {"undefined", "", "1 Ergebnis", "2 Ergebnisse"}

\* if (result) / if (!result)
Truthy(v) == v \notin {"undefined", ""}

ErrTimedOut == "waitUntil timed out"
ErrCondition == "condition threw"

Pending == wuPc \in {"first", "polling"}
WuSettled == wuPc \in {"resolved", "rejected"}

TimedOutNever(now, maxTime) == FALSE

\* if (Date.now() > maxTime)
TimedOut(now, maxTime) == now > maxTime

Observe(v) == IF wuObserved = "none" /\ Truthy(v) THEN v ELSE wuObserved

WuCall(timeout) ==
    /\ wuPc = "idle"
    /\ wuPc' = "first"
    /\ wuTimeout' = timeout
    /\ UNCHANGED <<gotoVars, crawlVars, loadVars, readVars, cleanVars,
                   navVars, backoffVars, wuResult, wuNow, wuInterval,
                   wuInFlight, wuLate, wuUnhandled, wuObserved>>

WuCallStep == \E timeout \in 0..MaxTimeout : WuCall(timeout)

\* lines 3-4 and 7-9: the first condition() returned
WuFirstReturns(v) ==
    /\ wuPc = "first"
    /\ wuObserved' = Observe(v)
    /\ IF Truthy(v)
       THEN /\ wuPc' = "resolved"
            /\ wuResult' = v
            /\ UNCHANGED <<wuNow, wuInterval>>
       ELSE /\ wuPc' = "polling"
            /\ wuNow' = 0
            /\ wuInterval' = TRUE
            /\ UNCHANGED wuResult
    /\ UNCHANGED <<gotoVars, crawlVars, loadVars, readVars, cleanVars,
                   navVars, backoffVars, wuTimeout, wuInFlight, wuLate,
                   wuUnhandled>>

\* line 3: the first condition() threw, the async function rejects
WuFirstThrows ==
    /\ wuPc = "first"
    /\ wuPc' = "rejected"
    /\ wuResult' = ErrCondition
    /\ UNCHANGED <<gotoVars, crawlVars, loadVars, readVars, cleanVars,
                   navVars, backoffVars, wuTimeout, wuNow, wuInterval,
                   wuInFlight, wuLate, wuUnhandled, wuObserved>>

WuFirstCompletes == (\E v \in ConditionValues : WuFirstReturns(v)) \/ WuFirstThrows

\* lines 9-14: a callback of the interval starts; after the timeout branch
\* it goes on to call condition()
WuTick(d) ==
    /\ wuInterval
    /\ wuInFlight < MaxInFlight
    /\ wuNow' = Min(wuNow + d, wuTimeout + MaxDrift)
    /\ IF TimedOut(wuNow', wuTimeout)
       THEN /\ wuInterval' = FALSE
            /\ IF wuPc = "polling"
               THEN /\ wuPc' = "rejected"
                    /\ wuResult' = ErrTimedOut
               ELSE UNCHANGED <<wuPc, wuResult>>
       ELSE UNCHANGED <<wuInterval, wuPc, wuResult>>
    /\ wuInFlight' = wuInFlight + 1
    /\ wuLate' = IF wuPc' = "polling" THEN wuLate ELSE wuLate + 1
    /\ UNCHANGED <<gotoVars, crawlVars, loadVars, readVars, cleanVars,
                   navVars, backoffVars, wuTimeout, wuUnhandled, wuObserved>>

WuTickStep == \E d \in 1..MaxDrift : WuTick(d)

\* lines 14-17: the condition() of a callback returned
WuPollReturns(v) ==
    /\ wuInFlight > 0
    /\ wuInFlight' = wuInFlight - 1
    /\ wuObserved' = Observe(v)
    /\ IF Truthy(v)
       THEN /\ wuInterval' = FALSE
            /\ IF wuPc = "polling"
               THEN /\ wuPc' = "resolved"
                    /\ wuResult' = v
               ELSE UNCHANGED <<wuPc, wuResult>>
       ELSE UNCHANGED <<wuInterval, wuPc, wuResult>>
    /\ UNCHANGED <<gotoVars, crawlVars, loadVars, readVars, cleanVars,
                   navVars, backoffVars, wuTimeout, wuNow, wuLate,
                   wuUnhandled>>

\* line 14: the condition() of a callback threw; the callback's promise
\* rejects and nothing handles it
WuPollThrows ==
    /\ wuInFlight > 0
    /\ wuInFlight' = wuInFlight - 1
    /\ wuUnhandled' = TRUE
    /\ UNCHANGED <<gotoVars, crawlVars, loadVars, readVars, cleanVars,
                   navVars, backoffVars, wuPc, wuResult, wuTimeout, wuNow,
                   wuInterval, wuLate, wuObserved>>

WuPollCompletes == (\E v \in ConditionValues : WuPollReturns(v)) \/ WuPollThrows

WaitNext ==
    \/ WuCallStep
    \/ WuFirstCompletes
    \/ WuTickStep
    \/ WuPollCompletes

InitWait == GotoInit /\ CrawlIdle /\ LoadIdle /\ ReadIdle /\ CleanIdle /\ NavIdle
    /\ BackoffIdle /\ WaitIdle

SpecWait == InitWait /\ [][WaitNext]_vars

\* every call of condition completes, and a set interval fires
WaitFairness ==
    /\ WF_vars(WuFirstCompletes)
    /\ WF_vars(WuTickStep)
    /\ WF_vars(WuPollCompletes)

SpecWaitLive == SpecWait /\ WaitFairness

\* C23: waitUntil is a bounded wait: provided every call of condition
\* completes it always eventually settles, never staying pending forever; it
\* resolves with the first truthy result of condition when one is observed,
\* and rejects with the timeout only once the timeout has elapsed without a
\* truthy result.
C23_BoundedWait ==
    /\ Pending ~> WuSettled
    /\ [](wuPc = "resolved" => Truthy(wuResult) /\ wuResult = wuObserved)
    /\ [](Pending => wuObserved = "none")
    /\ [][wuPc = "polling" /\ wuPc' = "rejected"
            => /\ wuResult' = ErrTimedOut
               /\ wuObserved = "none"
               /\ wuNow' > wuTimeout]_vars
    /\ [](wuPc = "polling" => wuNow <= wuTimeout)

C23_Witness ==
    /\ wuPc = "rejected"
    /\ wuResult = ErrTimedOut
    /\ wuTimeout = 2
    /\ wuNow = 3
    /\ wuObserved = "none"
    /\ wuUnhandled

\* C28: waitUntil never evaluates condition after it has settled: once it has
\* resolved or rejected with the timeout, its timer starts no further call
\* of condition.
C28_NoConditionAfterSettle == wuLate = 0

FailedCalls == {k \in 1..Len(ebLog) : ~ebLog[k].ok}

\* C22: exponentialBackoff with maxRetries >= 1 calls fn at least once and at
\* most maxRetries times, stops at the first call that succeeds and returns
\* its value, otherwise rethrows the error of the maxRetries-th call; after
\* the k-th failed call (from 0) that is not the last it waits delay*2^k,
\* and it does not wait after the last failed call.
C22_BackoffContract ==
    ebMaxRetries >= 1 =>
        /\ Len(ebLog) <= ebMaxRetries
        /\ ebPc \in {"returned", "thrown"} => Len(ebLog) >= 1
        /\ \A k \in 1..Len(ebLog) :
              ebLog[k].ok => /\ k = Len(ebLog)
                             /\ ebPc = "returned"
                             /\ ebResult = ebLog[k].outcome
        /\ ebPc = "returned" => ebLog[Len(ebLog)].ok
        /\ ebPc = "thrown" => /\ Len(ebLog) = ebMaxRetries
                              /\ FailedCalls = 1..ebMaxRetries
                              /\ ebResult = ebLog[ebMaxRetries].outcome
        /\ ebPc = "call" => FailedCalls = 1..ebAttempt
        /\ Len(ebWaits) = Cardinality(FailedCalls \ {ebMaxRetries})
        /\ \A k \in 1..Len(ebWaits) :
              /\ k = 1 => ebWaits[k] = ebDelay
              /\ k > 1 => ebWaits[k] = 2 * ebWaits[k - 1]

C22_Witness ==
    /\ ebPc = "thrown"
    /\ ebMaxRetries = 3
    /\ ebWaits = <<LoadDelay, 2 * LoadDelay>>
    /\ ebResult = [kind |-> "TimeoutError", call |-> 3]
    /\ ebLog[1].outcome.kind = "Error"

(***************************************************************************)
(* Properties of cleanupMemory                                             *)
(***************************************************************************)
EventsOfCall(c) == {i \in 1..Len(cleanLog) : cleanLog[i].call = c}

\* C16: cleanupMemory never raises, whatever the state of the session:
\* on an unhealthy session it does nothing to the page after the probe,
\* and a cleanup step that fails ends the call normally.
C16_CleanupNeverRaises ==
    /\ cleanPc # "raised"
    /\ \A i \in 1..Len(cleanLog) :
          /\ (cleanLog[i].ev = "probe" /\ ~cleanLog[i].ok) =>
                /\ EventsOfCall(cleanLog[i].call) = {i}
                /\ cleanLog[i].call = cleanCalls => cleanPc = "returned"
          /\ (cleanLog[i].ev # "probe" /\ ~cleanLog[i].ok) =>
                /\ \A j \in EventsOfCall(cleanLog[i].call) : j <= i
                /\ cleanLog[i].call = cleanCalls => cleanPc = "returned"

C16_Witness ==
    /\ cleanCalls = 3
    /\ cleanPc = "returned"
    /\ Len(cleanLog) = 6
    /\ cleanLog[3].ev = "clearCookies" /\ ~cleanLog[3].ok
    /\ cleanLog[5].ev = "evaluate" /\ ~cleanLog[5].ok
    /\ cleanLog[6].ev = "probe" /\ ~cleanLog[6].ok

(***************************************************************************)
(* Properties of readArbeitsagenturPosting                                 *)
(***************************************************************************)
WellFormed == \A k \in 1..Len(rows) : rows[k] = "complete"
\* the first k reads were for the indices 0, 1, ..., k-1
InOrder(k) == \A j \in 1..k : readLog[j].index = j - 1

\* C13: on a listing of N complete rows, reading the indices 0..N-1 in
\* order yields the posting of each row, and reading index N then yields
\* absent, raises nothing and leaves the page as it is.
C13_ReadInOrder ==
    WellFormed =>
        \A k \in 1..Len(readLog) :
            /\ readLog[k].outcome # "raised"
            /\ readLog[k].outcome = "absent" => readLog[k].removed = {}
            /\ InOrder(k) =>
                  IF k <= Len(rows)
                  THEN /\ readLog[k].outcome = "posting"
                       /\ readLog[k].id = k - 1
                  ELSE k = Len(rows) + 1 => readLog[k].outcome = "absent"

C13_Witness ==
    /\ WellFormed
    /\ Len(rows) = 3
    /\ Len(readLog) = 4
    /\ InOrder(4)
    /\ readLog[3].outcome = "posting"
    /\ readLog[4].outcome = "absent"
    /\ readLog[4].removed = {}

(***************************************************************************)
(* Properties of loadNextPage                                              *)
(***************************************************************************)
\* C12: loadNextPage never raises; it calls fn (click, then wait for the
\* row) at most 5 times, returns true as soon as one call sees the row
\* and false when all 5 calls have failed, whatever the failures were.
C12_LoadNextPageNeverRaises ==
    /\ loadPc # "raised"
    /\ Len(loadLog) <= LoadRetries
    /\ \A k \in 1..Len(loadLog) :
          loadLog[k] = FnSeen => (k = Len(loadLog) /\ loadPc = "true")
    /\ loadPc = "true" => (loadLog # <<>> /\ loadLog[Len(loadLog)] = FnSeen)
    /\ loadPc = "false" =>
          /\ Len(loadLog) = LoadRetries
          /\ \A k \in 1..Len(loadLog) : loadLog[k] \in FnFailures
    /\ loadPc \in {"click", "check", "poll"} =>
          (Len(loadLog) = loadAttempt /\ loadAttempt < LoadRetries)

C12_Witness ==
    /\ loadPc = "false"
    /\ loadLog = <<FnButtonMissing, FnTimedOut, FnTimedOut, FnConditionThrew,
                   FnButtonMissing>>

(***************************************************************************)
(* Properties of Crawler.goto                                              *)
(***************************************************************************)
EventsOf(kind) == {i \in 1..Len(trace) : trace[i].ev = kind}
\* the attempts of the current call that failed (probe or navigation)
FailedEvents == {i \in 1..Len(trace) : trace[i].ev \in {"probe", "nav"} /\ ~trace[i].ok}
\* a failure that is no crash, no closed page and no unhealthy probe
Transient(message) ==
    /\ message # NoError
    /\ ~Includes(message, "crashed")
    /\ ~Includes(message, "closed")
    /\ ~Includes(message, "unhealthy")
AllFailuresTransient == \A i \in FailedEvents : Transient(trace[i].message)
SuccessfulRecreations == {i \in EventsOf("recreate") : trace[i].ok}

\* C8: a goto call whose first k attempts fail with a transient error and
\* whose attempt k+1 succeeds (k <= maxRetries) returns normally after
\* exactly k+1 navigations, without any page recreation, on the page it
\* started with, and the page is healthy on return.
C8_TransientThenSuccess ==
    (gotoPc = "returned" /\ AllFailuresTransient) =>
        /\ Cardinality(FailedEvents) <= maxRetries
        /\ attempt = Cardinality(FailedEvents)
        /\ Cardinality(EventsOf("nav")) = Cardinality(FailedEvents) + 1
        /\ trace[Len(trace)].ev = "nav" /\ trace[Len(trace)].ok
        /\ EventsOf("recreate") = {}
        /\ page.id = pageAtCall
        /\ IsPageHealthy(page)
        /\ thrown = NoError

C8_Witness ==
    /\ gotoPc = "returned"
    /\ AllFailuresTransient
    /\ Cardinality(FailedEvents) = 2
    /\ Cardinality(EventsOf("nav")) = 3

\* C9: when every attempt of goto fails, it makes exactly maxRetries + 1
\* attempts and then raises one terminal error carrying the last failure's
\* message and the attempt count; it never raises earlier and never makes
\* an attempt beyond the budget.
C9_TerminalError ==
    /\ Cardinality(EventsOf("probe")) <= maxRetries + 1
    /\ gotoPc = "thrown" =>
          /\ Cardinality(EventsOf("probe")) = maxRetries + 1
          /\ Cardinality(FailedEvents) = maxRetries + 1
          /\ \E last \in FailedEvents :
                /\ \A i \in FailedEvents : i <= last
                /\ thrown = [attempts |-> maxRetries + 1,
                             message |-> trace[last].message]
    /\ gotoPc \notin {"idle", "thrown"} =>
          /\ thrown = NoError
          /\ Cardinality(FailedEvents) <= maxRetries
    /\ (gotoPc # "idle" /\ Cardinality(FailedEvents) = maxRetries + 1) =>
          gotoPc = "thrown"

C9_Witness ==
    /\ gotoPc = "thrown"
    /\ maxRetries = 3
    /\ Cardinality(FailedEvents) = 4
    /\ thrown.attempts = 4
    /\ thrown.message = ErrTimeout

\* C10: goto probes the page before every attempt; an attempt whose probe
\* is unhealthy issues no navigation, and exactly one recreatePage call
\* happens before the next attempt; the Crawler keeps its browser, only
\* the page is replaced.
C10_ProbeAndRecreate ==
    /\ \A i \in EventsOf("nav") :
          /\ i > 1
          /\ trace[i - 1] = ProbeEvent(trace[i].attempt, TRUE)
    /\ \A i \in EventsOf("probe") :
          IF i = 1 THEN trace[i].attempt = 0
          ELSE /\ trace[i - 1].ev # "probe"
               /\ trace[i].attempt = trace[i - 1].attempt + 1
    /\ \A i \in EventsOf("probe") :
          ~trace[i].ok =>
             /\ i = Len(trace) =>
                   gotoPc = (IF trace[i].attempt = maxRetries
                             THEN "thrown" ELSE "recreate")
             /\ i < Len(trace) =>
                   /\ trace[i + 1].ev = "recreate"
                   /\ trace[i + 1].attempt = trace[i].attempt
             /\ i + 1 < Len(trace) =>
                   trace[i + 2].ev = "probe"
    /\ browser = 1
    /\ page.id = pageAtCall + Cardinality(SuccessfulRecreations)

C10_Witness ==
    /\ gotoPc = "returned"
    /\ Len(trace) = 4
    /\ trace[1] = ProbeEvent(0, FALSE)
    /\ trace[2] = RecreateEvent(0, TRUE)
    /\ trace[3] = ProbeEvent(1, TRUE)
    /\ trace[4] = NavEvent(1, NoError)
    /\ page.id = pageAtCall + 1
    /\ browser = 1

FailedRecreations == {i \in EventsOf("recreate") : ~trace[i].ok}

\* C11 (as stated): when recreatePage fails during goto the error is
\* surfaced to the caller at once: goto makes no further attempt in that
\* call and does not return normally.
C11_RecreateFailureSurfaced ==
    \A i \in FailedRecreations :
        /\ i = Len(trace)
        /\ gotoPc # "returned"

\* C11 (amended): a failure of recreatePage is caught inside goto: it
\* only happens on an attempt that is not the last one, raises nothing,
\* leaves the page unhealthy, and goto backs off and goes on to the next
\* attempt, whose probe fails and asks for recreation again; the caller
\* sees an error only as the terminal error of the exhausted budget.
C11_RecreateFailureRetried ==
    /\ \A i \in FailedRecreations :
          /\ trace[i].attempt < maxRetries
          /\ i = Len(trace) =>
                /\ gotoPc = (IF attempt = trace[i].attempt THEN "backoff" ELSE "probe")
                /\ attempt \in {trace[i].attempt, trace[i].attempt + 1}
                /\ thrown = NoError
                /\ ~IsPageHealthy(page)
          /\ i < Len(trace) =>
                trace[i + 1] = ProbeEvent(trace[i].attempt + 1, FALSE)
    /\ gotoPc = "thrown" => thrown = TerminalError(maxRetries, thrown.message)

C11_Witness ==
    /\ gotoPc = "returned"
    /\ Len(trace) = 6
    /\ trace[2] = RecreateEvent(0, FALSE)
    /\ trace[3] = ProbeEvent(1, FALSE)
    /\ trace[4] = RecreateEvent(1, TRUE)
    /\ trace[6] = NavEvent(2, NoError)

CrashedNavigations == {i \in EventsOf("nav") : trace[i].message = ErrCrashed}

Closed == 1..Len(batches)
Processed == {"enriched", "navfailed", "readfailed"}
\* a row of batch n or of a later batch has been read
ReadUpTo(n) == Len(batches) >= n \/ (Len(batches) = n - 1 /\ postings # <<>>)

\* C1: saveCallback is invoked with the batches in the order they were
\* closed: its k-th invocation is for the k-th closed batch, under every
\* interleaving of reading, enrichment and sink.
C1_SinkOrder ==
    \A k \in 1..Len(sinkLog) :
        /\ sinkLog[k].batch = k
        /\ k \in Closed
        /\ sinkLog[k].ids = batches[k].ids

C1_Witness ==
    /\ Len(sinkLog) = 3
    /\ batches[3].phase = "saving"
    /\ postings # <<>>

\* C2: the pipeline is one deep: no row of batch N+2 is read before the
\* promise saveCallback returned for batch N has resolved.
C2_PipelineDepthOne ==
    \A n \in Closed : ReadUpTo(n + 2) => batches[n].phase = "resolved"

C2_Witness ==
    /\ Len(batches) = 2
    /\ batches[1].phase = "resolved"
    /\ batches[2].phase = "enriching"
    /\ postings # <<>>

\* C3: when readPostings returns its row count no hand-off is pending:
\* the enrichment and the saveCallback promise of every closed batch
\* have resolved.
C3_NothingPendingOnReturn ==
    pc = "returned" =>
        /\ result = count
        /\ \A b \in Closed :
              /\ batches[b].phase = "resolved"
              /\ \A s \in Sessions : batches[b].workers[s].phase \in {"done", "none"}

C3_Witness ==
    /\ pc = "returned"
    /\ Len(batches) = 2
    /\ result = count
    /\ count > 0

\* C4: readPostings ends with an error only for a navigation failure of
\* the primary session; a required element missing in a row, a failing
\* pool-session navigation or an enrichment failure never reject it.
C4_OnlyPrimaryNavigationRejects ==
    pc = "rejected" => result = "primary navigation"

\* C5: a posting whose enrichment fails (navigation or extraction) keeps
\* all its enrichment fields null and stops neither its partition nor the
\* batch: when addCompanyData has resolved every posting of the batch was
\* processed, and every other posting has the fields of its own outcome.
C5_FailureIsolated ==
    /\ \A i \in DOMAIN posting :
          /\ posting[i].status \in {"read", "started", "navfailed", "readfailed"}
                => posting[i].fields = NullFields
          /\ posting[i].status = "enriched" => posting[i].fields = PageFields
    /\ \A b \in Closed :
          /\ batches[b].phase = "saving" =>
                \A i \in Range(batches[b].ids) : posting[i].status \in Processed
          /\ batches[b].phase = "enriching" =>
                /\ \E s \in Sessions :
                      batches[b].workers[s].phase \in {"cleanup", "nav", "extract"}
                /\ \A s \in DOMAIN batches[b].groups :
                      batches[b].workers[s].phase = "done" =>
                         \A k \in 1..Len(batches[b].groups[s]) :
                            posting[batches[b].groups[s][k]].status \in Processed

C5_Witness ==
    \E b \in Closed, s \in Sessions :
        /\ batches[b].phase = "saving"
        /\ s \in DOMAIN batches[b].groups
        /\ Len(batches[b].groups[s]) = 3
        /\ posting[batches[b].groups[s][1]].status = "navfailed"
        /\ posting[batches[b].groups[s][2]].status = "readfailed"
        /\ posting[batches[b].groups[s][3]].status = "enriched"
        /\ posting[batches[b].groups[s][3]].fields = PageFields

\* C6: the posting at batch position p goes to pool session p mod
\* poolSize: the groups are disjoint, cover the batch and keep its order;
\* within a group posting k+1 is not started before posting k is
\* finished or skipped, while the groups advance independently.
C6_RoundRobinPartition ==
    \A b \in Closed :
        LET ids == batches[b].ids
            groups == batches[b].groups
        IN /\ GroupBy(<<0, 1, 2, 3, 4, 5, 6, 7, 8, 9>>,
                      GetGroup(<<0, 1, 2, 3, 4, 5, 6, 7, 8, 9>>, 3))
                 = (0 :> <<0, 3, 6, 9>>) @@ (1 :> <<1, 4, 7>>) @@ (2 :> <<2, 5, 8>>)
           /\ DOMAIN groups = {s \in Sessions : s < Len(ids)}
           /\ \A s \in DOMAIN groups :
                 /\ Len(groups[s]) = Cardinality({p \in 0..(Len(ids) - 1) : p % poolSize = s})
                 /\ \A k \in 1..Len(groups[s]) :
                       groups[s][k] = ids[(k - 1) * poolSize + s + 1]
                 /\ \A k \in 1..(Len(groups[s]) - 1) :
                       (groups[s][k + 1] \in DOMAIN posting
                        /\ posting[groups[s][k + 1]].status # "read")
                          => posting[groups[s][k]].status \in Processed
                 /\ batches[b].workers[s].phase \in {"cleanup", "nav", "extract"} =>
                       posting[groups[s][batches[b].workers[s].pos]].status = "started"

C6_Witness ==
    \E b \in Closed :
        /\ poolSize = 2
        /\ Len(batches[b].ids) = 3
        /\ batches[b].workers[0].pos = 2
        /\ batches[b].workers[0].phase = "extract"
        /\ batches[b].workers[1].pos = 1
        /\ batches[b].workers[1].phase = "nav"
        /\ batches[b].groups[0] = <<batches[b].ids[1], batches[b].ids[3]>>
        /\ batches[b].groups[1] = <<batches[b].ids[2]>>

\* the number of rows in the batches closed before batch b (for
\* b = Len(batches) + 1: before the open batch)
RowsBefore(b) ==
    IF b = 1 THEN 0
    ELSE batches[b - 1].ids[Len(batches[b - 1].ids)] + 1

\* C14: rows are read in strictly increasing index order without gap or
\* repeat: the index an iteration reads is the number of rows read so
\* far, and the closed batches followed by the open one hold the rows
\* 0, 1, ..., count-1 in that order.
C14_ReadOrder ==
    /\ \A b \in Closed :
          /\ batches[b].ids # <<>>
          /\ \A k \in 1..Len(batches[b].ids) :
                batches[b].ids[k] = RowsBefore(b) + k - 1
    /\ \A k \in 1..Len(postings) :
          postings[k] = RowsBefore(Len(batches) + 1) + k - 1
    /\ count = RowsBefore(Len(batches) + 1) + Len(postings)
    /\ ReadIndex = count

C14_Witness ==
    /\ Len(batches) = 3
    /\ batches[1].ids = <<0, 1, 2>>
    /\ batches[2].ids = <<3, 4, 5>>
    /\ batches[3].ids = <<6, 7, 8>>
    /\ postings = <<9, 10>>
    /\ count = 11

PartitionCleanups ==
    {k \in 1..Len(cleanupLog) : cleanupLog[k].by = "addCompanyData"}

\* C18: in a partition cleanupMemory runs exactly before the items at
\* the partition positions 10, 20, ... (the 11th, 21st, ... item), once
\* for each of them and before no other item, also when the navigation
\* of items of the partition fails.
C18_CleanupEveryTenthItem ==
    /\ \A k \in PartitionCleanups :
          /\ cleanupLog[k].at > 1
          /\ (cleanupLog[k].at - 1) % PartitionCleanupEvery = 0
          /\ \A j \in PartitionCleanups :
                (/\ cleanupLog[j].batch = cleanupLog[k].batch
                 /\ cleanupLog[j].session = cleanupLog[k].session
                 /\ cleanupLog[j].at = cleanupLog[k].at) => j = k
    /\ \A b \in Closed : \A s \in Sessions :
          LET w == batches[b].workers[s]
          IN (/\ w.phase \in {"nav", "extract"}
              /\ w.pos > 1
              /\ (w.pos - 1) % PartitionCleanupEvery = 0) =>
                \E k \in PartitionCleanups :
                    /\ cleanupLog[k].batch = b
                    /\ cleanupLog[k].session = s
                    /\ cleanupLog[k].at = w.pos

\* C19: readPostings cleans the primary session and then the pool
\* sessions once for every 50 rows read: the k-th cleanup happens at
\* count 50*k, before the row with that index is read, and is not
\* repeated when the loop comes back with the same count.
C19_CleanupEveryFiftyRows ==
    /\ \A j \in 1..Len(cleanupLog) :
          /\ cleanupLog[j].by = "readPostings"
          /\ cleanupLog[j].session = (IF j % 2 = 1 THEN "primary" ELSE "pool")
          /\ cleanupLog[j].at = CleanupEvery * ((j + 1) \div 2)
    /\ Len(cleanupLog) =
          2 * (lastCleanup \div CleanupEvery)
          + (CASE pc = "cleanupPrimary" -> 1 [] pc = "cleanupPool" -> 2 [] OTHER -> 0)
    /\ lastCleanup % CleanupEvery = 0
    /\ lastCleanup <= count
    /\ count - lastCleanup <= CleanupEvery
    /\ count - lastCleanup = CleanupEvery =>
          pc \in {"loop", "cleanupPrimary", "cleanupPool"}
    /\ pc \in {"cleanupPrimary", "cleanupPool"} =>
          count - lastCleanup = CleanupEvery

C19_Witness ==
    /\ pc = "loop"
    /\ count = 100
    /\ lastCleanup = 100
    /\ Len(cleanupLog) = 4
    /\ cleanupLog[3] = OrchCleanupRecord("primary")
    /\ cleanupLog[4] = OrchCleanupRecord("pool")

\* C20: an absent row closes the open batch; only a non-empty batch is
\* handed to enrichment and to saveCallback, and every posting of a
\* batch that is being enriched or saved carries the url given to
\* readPostings in from_search_url.
C20_NonEmptyTaggedBatches ==
    /\ \A b \in Closed :
          /\ batches[b].ids # <<>>
          /\ batches[b].phase \in {"enriching", "saving"} =>
                \A i \in Range(batches[b].ids) :
                    posting[i].from_search_url = Url
    /\ \A k \in 1..Len(sinkLog) : sinkLog[k].ids # <<>>
    /\ pc \in {"paginate", "finalAwait", "returned"} => postings = <<>>

C20_Witness ==
    /\ Len(batches) = 2
    /\ batches[2].phase = "saving"
    /\ Len(sinkLog) = 2
    /\ Len(sinkLog[2].ids) = 3
    /\ \A i \in Range(sinkLog[2].ids) : posting[i].from_search_url = Url

\* C24: readPostings terminates: on a finite listing, when every session
\* operation and every saveCallback call completes, readPostings eventually
\* returns or raises; the loop is left without an error exactly by a
\* loadNextPage that returned false, and a loadNextPage that returned true
\* goes round the loop again.
C24_Terminates ==
    /\ <>(pc \in {"returned", "rejected"})
    /\ [][/\ pc \notin {"finalAwait", "returned"} /\ pc' \in {"finalAwait", "returned"}
             => pc = "paginate" /\ listing' = listing
          /\ pc = "paginate"
             => \/ pc' = "loop" /\ listing'.revealed > listing.revealed
                \/ pc' \in {"finalAwait", "returned"} /\ listing' = listing
          /\ pc' = "returned" => pc \in {"paginate", "finalAwait"} /\ result' = count]_pc

C24_Witness ==
    /\ pc = "returned"
    /\ result = MaxRows
    /\ listing.revealed = MaxRows
    /\ listing.pageSize = MaxPage
    /\ Len(sinkLog) = Len(batches)

\* the sizes of the first n batches handed to saveCallback, added up
RECURSIVE SizesHanded(_)
SizesHanded(n) == IF n = 0 THEN 0 ELSE SizesHanded(n - 1) + Len(sinkLog[n].ids)

HandedIn(i) == {b \in 1..Len(sinkLog) : i \in Range(sinkLog[b].ids)}

\* C25: no row is lost or duplicated on a normal return of readPostings:
\* every posting read is handed to saveCallback in exactly one batch, once,
\* no posting stays in an unclosed batch, and the returned count is the sum
\* of the sizes of the batches handed to saveCallback.
C25_NoRowLostOrDuplicated ==
    pc = "returned" =>
        /\ postings = <<>>
        /\ Len(sinkLog) = Len(batches)
        /\ \A b \in Closed : sinkLog[b].ids = batches[b].ids
        /\ \A i \in 0..(count - 1) : Cardinality(HandedIn(i)) = 1
        /\ \A b \in 1..Len(sinkLog) :
              /\ Cardinality(Range(sinkLog[b].ids)) = Len(sinkLog[b].ids)
              /\ Range(sinkLog[b].ids) \subseteq 0..(count - 1)
        /\ result = count
        /\ result = SizesHanded(Len(sinkLog))

C25_Witness ==
    /\ pc = "returned"
    /\ result = MaxRows
    /\ listing.pageSize = 2
    /\ Len(sinkLog) = (MaxRows + 1) \div 2
    /\ Len(sinkLog[Len(sinkLog)].ids) = (IF MaxRows % 2 = 0 THEN 2 ELSE 1)

\* the batches whose addCompanyData or saveCallback has not settled
Unsettled == {b \in Closed : batches[b].phase \in {"enriching", "saving"}}

\* the batches with a partition worker at work on pool session s
WorkingOn(s) ==
    {b \in Closed : batches[b].workers[s].phase \in {"cleanup", "nav", "extract"}}

\* C26: at most one enrichment is in flight: addCompanyData is started for
\* a batch only after addCompanyData and saveCallback of the previous batch
\* have resolved, so partition workers of different batches never drive the
\* same pool session.
C26_OneEnrichmentInFlight ==
    /\ Cardinality(Unsettled) <= 1
    /\ \A b \in Closed : b < Len(batches) => batches[b].phase = "resolved"
    /\ \A b \in Closed :
          batches[b].phase # "enriching" => \A s \in Sessions : b \notin WorkingOn(s)
    /\ \A s \in Sessions : Cardinality(WorkingOn(s)) <= 1

C26_Witness ==
    /\ Len(batches) = 3
    /\ batches[1].phase = "resolved"
    /\ batches[2].phase = "resolved"
    /\ poolSize = 2
    /\ WorkingOn(0) = {3}
    /\ WorkingOn(1) = {3}
    /\ postings # <<>>

\* the failures that leave the page unhealthy
LeavesUnhealthy == {ErrUnhealthy, ErrCrashed, ErrClosed}

\* C27: a session left unhealthy by a terminal goto error is recovered by
\* the next call: goto does not recreate the page after its last failed
\* attempt, and a call with maxRetries >= 1 that finds the page unhealthy
\* detects it on its first probe and recreates the page before its next
\* attempt, on which the new page is probed healthy and navigated.
C27_RecoveredByNextCall ==
    /\ [](\A i \in EventsOf("recreate") : trace[i].attempt < maxRetries)
    /\ [](gotoPc = "thrown" =>
             /\ trace # <<>>
             /\ trace[Len(trace)].ev \in {"probe", "nav"}
             /\ trace[Len(trace)].attempt = maxRetries
             /\ thrown = TerminalError(maxRetries, trace[Len(trace)].message)
             /\ trace[Len(trace)].message \in LeavesUnhealthy
                   => ~IsPageHealthy(page))
    /\ [][gotoPc = "probe" /\ ~IsPageHealthy(page)
             => /\ trace' = Append(trace, ProbeEvent(attempt, FALSE))
                /\ page' = page
                /\ gotoPc' = (IF attempt < maxRetries THEN "recreate" ELSE "thrown")]_vars
    /\ [][gotoPc = "recreate" /\ attempt = 0 /\ maxRetries >= 1
             => /\ trace' = Append(trace, RecreateEvent(0, IsPageHealthy(page')))
                /\ gotoPc' = "backoff"]_vars
    /\ [](/\ Len(trace) >= 3
          /\ trace[1] = ProbeEvent(0, FALSE)
          /\ trace[2] = RecreateEvent(0, TRUE)
          /\ crashes = 0
          => /\ trace[3] = ProbeEvent(1, TRUE)
             /\ page.id > pageAtCall)

C27_Witness ==
    /\ calls = 2
    /\ crashes = 0
    /\ gotoPc = "returned"
    /\ ~useSpaNavigation
    /\ maxRetries = FullRetries
    /\ trace = <<ProbeEvent(0, FALSE), RecreateEvent(0, TRUE),
                 ProbeEvent(1, TRUE), NavEvent(1, NoError)>>

\* C21: saveCallback is invoked with a batch only when the worker of
\* every partition of the batch has returned, and from that invocation
\* on no posting of the batch and not the batch array is written: the
\* postings stay as they were handed over until the sink is done.
C21_NoMutationAfterHandOff ==
    \A b \in Closed :
        /\ batches[b].phase = "saving" =>
              /\ AllWorkersDone(batches[b].workers)
              /\ b <= Len(sinkLog)
              /\ sinkLog[b].ids = batches[b].ids
              /\ DOMAIN batches[b].handed = Range(batches[b].ids)
              /\ \A i \in Range(batches[b].ids) :
                    /\ i \in DOMAIN posting
                    /\ posting[i] = batches[b].handed[i]
              /\ Range(postings) \cap Range(batches[b].ids) = {}
        /\ batches[b].phase = "enriching" => Len(sinkLog) < b

C21_Witness ==
    /\ Len(batches) = 2
    /\ batches[2].phase = "saving"
    /\ Len(batches[2].ids) = 3
    /\ Len(postings) = 2
    /\ \E i \in Range(batches[2].ids) : batches[2].handed[i].status = "enriched"
    /\ \E i \in Range(batches[2].ids) : batches[2].handed[i].status = "navfailed"

\* C7: no pool session has operations of two tasks in flight at once (a
\* partition worker and the periodic cleanup of readPostings, or workers
\* of two batches).
C7_SessionExclusive ==
    \A s \in Sessions : Cardinality(InFlight(s)) <= 1

====
